---- MODULE Spec2Model ----
(***************************************************************************)
(* Model of mackup/config.py: the Config class that locates, reads and     *)
(* validates the .mackup.cfg file.                                         *)
(*                                                                         *)
(* Representation.  A Python str is modelled as the sequence of its        *)
(* "/"-separated segments (s.split("/")): "foo/bar" is <<"foo","bar">>,    *)
(* "/etc/cfg" is <<"","etc","cfg">>, "" is <<"">>, "/home/u/" is           *)
(* <<"","home","u","">>.  No str splits into zero segments, so Python's    *)
(* None is the empty sequence.  A parsed config file is a function from    *)
(* section names to functions from option names to values (the             *)
(* has_section / has_option / get / options surface of configparser);      *)
(* an option written without a value carries None (allow_no_value=True).   *)
(***************************************************************************)
EXTENDS Integers, Sequences, FiniteSets, TLC

VARIABLES
    config_path,      \* the argument of Config(config_path)
    files,            \* the regular files on disk and their parsed content
    pc,               \* the statement of __init__ that runs next (or raised)
    exc,              \* the exception that left __init__, "" if none
    resolved,         \* what _resolve_config_path returned
    _parser, _engine, _path, _directory, _apps_to_ignore, _apps_to_sync,
    calls,            \* the folder-location lookups invoked, in order
    read              \* the last property read and the value it gave

vars == <<config_path, files, pc, exc, resolved, _parser, _engine, _path,
          _directory, _apps_to_ignore, _apps_to_sync, calls, read>>

----------------------------------------------------------------------------
(* Python values *)

None == <<>>

\* str(x): None prints as the four letters "None", a str is itself
Str(x) == IF x = None THEN <<"None">> ELSE x

\* value of an attribute that has not been assigned yet
Unset == <<"<unset>">>

----------------------------------------------------------------------------
(* mackup.constants and the process environment *)

CUSTOM_APPS_DIR == <<".mackup">>
MACKUP_BACKUP_PATH == <<"Mackup">>
MACKUP_CONFIG_FILE == <<".mackup.cfg">>
ENGINE_DROPBOX == <<"dropbox">>
ENGINE_GDRIVE == <<"google_drive">>
ENGINE_COPY == <<"copy">>
ENGINE_ICLOUD == <<"icloud">>
ENGINE_FS == <<"file_system">>

\* os.environ["HOME"] and os.getcwd()
HOME == <<"", "home", "u">>
CWD == <<"", "work">>

----------------------------------------------------------------------------
(* os.path *)

Last(s) == s[Len(s)]
Front(s) == SubSeq(s, 1, Len(s) - 1)

\* p.startswith("/")
IsAbs(p) == Len(p) > 1 /\ p[1] = ""

\* p.endswith("/")
EndsWithSep(p) == Len(p) > 1 /\ Last(p) = ""

\* posixpath.join(a, b) for a str b
Join(a, b) ==
    IF IsAbs(b) THEN b
    ELSE IF a = <<"">> \/ EndsWithSep(a) THEN Front(a) \o b
    ELSE a \o b

\* posixpath.expanduser(p): a leading "~" segment is replaced by $HOME
Expanduser(p) ==
    IF p # None /\ Head(p) = "~" THEN HOME \o Tail(p) ELSE p

RECURSIVE NormComps(_, _)
NormComps(comps, acc) ==
    IF comps = <<>> THEN acc
    ELSE LET c == Head(comps) IN
         IF c \in {"", "."} THEN NormComps(Tail(comps), acc)
         ELSE IF c = ".."
              THEN NormComps(Tail(comps),
                             IF acc = <<>> THEN acc ELSE Front(acc))
              ELSE NormComps(Tail(comps), Append(acc, c))

\* posixpath.normpath of an absolute path
Normpath(p) ==
    LET comps == NormComps(Tail(p), <<>>)
    IN IF comps = <<>> THEN <<"", "">> ELSE <<"">> \o comps

\* posixpath.abspath(p)
Abspath(p) == Normpath(IF IsAbs(p) THEN p ELSE Join(CWD, p))

\* os.path.isfile(p) in filesystem fs: fs maps the absolute normalised
\* path of every regular file to its parsed content
file_exists(fs, p) == ~EndsWithSep(p) /\ Abspath(p) \in DOMAIN fs

----------------------------------------------------------------------------
(* configparser surface *)

EmptyParser == [s \in {} |-> <<>>]

has_section(p, s) == s \in DOMAIN p
has_option(p, s, o) == s \in DOMAIN p /\ o \in DOMAIN p[s]
get(p, s, o) == p[s][o]
options(p, s) == DOMAIN p[s]

\* parser.read(path): a path that cannot be opened is skipped silently
ParserRead(fs, path) ==
    IF file_exists(fs, path) THEN fs[Abspath(path)] ELSE EmptyParser

----------------------------------------------------------------------------
(* Config._resolve_config_path and Config._setup_parser *)

\* variant: the HOME candidate is tried before the expanded path
possible_paths_home_first(filename) ==
    << Join(HOME, filename), Expanduser(filename), Join(CWD, filename) >>

possible_paths(filename) ==
    << Expanduser(filename), Join(HOME, filename), Join(CWD, filename) >>

\* variant: an explicit path found nowhere falls back to the default file
_resolve_config_path_fallback(fs, filename) ==
    LET dflt == Join(HOME, MACKUP_CONFIG_FILE)
        found == IF filename = None THEN <<>>
                 ELSE SelectSeq(possible_paths(filename),
                                LAMBDA q : file_exists(fs, q))
    IN IF found # <<>> THEN Abspath(Head(found))
       ELSE IF file_exists(fs, dflt) THEN Abspath(dflt) ELSE None

_resolve_config_path(fs, filename) ==
    IF filename = None
    THEN LET dflt == Join(HOME, MACKUP_CONFIG_FILE)
         IN IF file_exists(fs, dflt) THEN Abspath(dflt) ELSE None
    ELSE LET found == SelectSeq(possible_paths(filename),
                                LAMBDA q : file_exists(fs, q))
         IN IF found # <<>> THEN Abspath(Head(found)) ELSE None

\* parser.read(_resolve_config_path(config_path) or "")
_setup_parser(fs, r) ==
    ParserRead(fs, IF r = None THEN <<"">> ELSE r)

----------------------------------------------------------------------------
(* mackup.utils: the four folder-location lookups.  host maps each lookup  *)
(* to what it does on this machine: return the client's sync folder, or    *)
(* fail because the client is not installed.                               *)

LookupFns == {"get_dropbox_folder_location",
              "get_google_drive_folder_location",
              "get_copy_folder_location",
              "get_icloud_folder_location"}

LookupFailed == <<"<lookup failed>">>

\* where the installed clients keep their folders on this machine
Roots == { <<"", "Users", "u">>, <<"", "mnt", "sync">> }

Hosts ==
    { [fn \in LookupFns |->
          IF fn \in installed THEN Append(root, fn) ELSE LookupFailed] :
      installed \in SUBSET LookupFns, root \in Roots }

----------------------------------------------------------------------------
(* The derivations.  Each returns [exc, val]: exc is "" on a normal return  *)
(* and the name of the exception otherwise.                                *)

Return(v) == [exc |-> "", val |-> v]
Raise(e) == [exc |-> e, val |-> None]

\* variant: only the first deprecated section is looked for
old_sections_first_only == <<"Allowed Applications">>

old_sections == <<"Allowed Applications", "Ignored Applications">>

\* TRUE when the loop reaches an error() call
_warn_on_old_config(p) ==
    \E i \in DOMAIN old_sections : has_section(p, old_sections[i])

KnownEngines ==
    {ENGINE_DROPBOX, ENGINE_GDRIVE, ENGINE_COPY, ENGINE_ICLOUD, ENGINE_FS}

\* variant: the engine value is not validated
_parse_engine_unchecked(p) ==
    IF has_option(p, "storage", "engine")
    THEN Return(Str(get(p, "storage", "engine")))
    ELSE Return(ENGINE_DROPBOX)

\* variant: the default engine is file_system
_parse_engine_default_fs(p) ==
    LET eng == IF has_option(p, "storage", "engine")
               THEN Str(get(p, "storage", "engine"))
               ELSE ENGINE_FS
    IN IF eng \notin KnownEngines THEN Raise("ConfigError")
       ELSE Return(Str(eng))

_parse_engine(p) ==
    LET eng == IF has_option(p, "storage", "engine")
               THEN Str(get(p, "storage", "engine"))
               ELSE ENGINE_DROPBOX
    IN IF eng \notin KnownEngines THEN Raise("ConfigError")
       ELSE Return(Str(eng))

\* one call of a lookup: [exc, val, calls]
Call(host, fn) ==
    IF host[fn] = LookupFailed
    THEN [exc |-> "LookupFailure", val |-> None,
          calls |-> <<[fn |-> fn, ret |-> LookupFailed]>>]
    ELSE [exc |-> "", val |-> Str(host[fn]),
          calls |-> <<[fn |-> fn, ret |-> host[fn]]>>]

NoCall(r) == [exc |-> r.exc, val |-> r.val, calls |-> <<>>]

\* variant: a 'path' option wins over the engine's lookup
_parse_path_prefers_option(p, eng, host) ==
    IF has_option(p, "storage", "path") /\ get(p, "storage", "path") # None
    THEN NoCall(Return(Str(Join(HOME, get(p, "storage", "path")))))
    ELSE IF eng = ENGINE_DROPBOX
         THEN Call(host, "get_dropbox_folder_location")
    ELSE IF eng = ENGINE_GDRIVE
         THEN Call(host, "get_google_drive_folder_location")
    ELSE IF eng = ENGINE_COPY THEN Call(host, "get_copy_folder_location")
    ELSE IF eng = ENGINE_ICLOUD THEN Call(host, "get_icloud_folder_location")
    ELSE IF has_option(p, "storage", "path")
         THEN NoCall(Raise("TypeError"))
         ELSE NoCall(Raise("ConfigError"))

_parse_path(p, eng, host) ==
    IF eng = ENGINE_DROPBOX THEN Call(host, "get_dropbox_folder_location")
    ELSE IF eng = ENGINE_GDRIVE
         THEN Call(host, "get_google_drive_folder_location")
    ELSE IF eng = ENGINE_COPY THEN Call(host, "get_copy_folder_location")
    ELSE IF eng = ENGINE_ICLOUD THEN Call(host, "get_icloud_folder_location")
    ELSE IF eng = ENGINE_FS
         THEN IF has_option(p, "storage", "path")
              THEN LET cfg_path == get(p, "storage", "path")
                   IN IF cfg_path = None THEN NoCall(Raise("TypeError"))
                      ELSE NoCall(Return(Str(Join(HOME, cfg_path))))
              ELSE NoCall(Raise("ConfigError"))
    ELSE NoCall(Raise("UnboundLocalError"))

\* variant: the reserved name is not rejected
_parse_directory_unreserved(p) ==
    IF has_option(p, "storage", "directory")
    THEN Return(Str(get(p, "storage", "directory")))
    ELSE Return(Str(MACKUP_BACKUP_PATH))

_parse_directory(p) ==
    IF has_option(p, "storage", "directory")
    THEN LET dir == get(p, "storage", "directory")
         IN IF dir = CUSTOM_APPS_DIR THEN Raise("ConfigError")
            ELSE Return(Str(dir))
    ELSE Return(Str(MACKUP_BACKUP_PATH))

_parse_apps_to_ignore(p) ==
    IF has_section(p, "applications_to_ignore")
    THEN options(p, "applications_to_ignore")
    ELSE {}

\* variant: the sync set is read from the ignore section
_parse_apps_to_sync_from_ignore(p) ==
    IF has_section(p, "applications_to_ignore")
    THEN options(p, "applications_to_ignore")
    ELSE {}

_parse_apps_to_sync(p) ==
    IF has_section(p, "applications_to_sync")
    THEN options(p, "applications_to_sync")
    ELSE {}

----------------------------------------------------------------------------
(* The read-only properties *)

engine == Str(_engine)
path == Str(_path)
directory == Str(_directory)
\* variant: the two parts are joined the wrong way round
fullpath_swapped == Str(Join(Str(_directory), Str(_path)))

fullpath == Str(Join(path, directory))
apps_to_ignore == _apps_to_ignore
apps_to_sync == _apps_to_sync

Getter(prop) ==
    CASE prop = "engine" -> engine
      [] prop = "path" -> path
      [] prop = "directory" -> directory
      [] prop = "fullpath" -> fullpath
      [] prop = "apps_to_ignore" -> apps_to_ignore
      [] prop = "apps_to_sync" -> apps_to_sync

Props == {"engine", "path", "directory", "fullpath",
          "apps_to_ignore", "apps_to_sync"}

\* utils.error(message): prints the message and terminates the process
error == "SystemExit"

----------------------------------------------------------------------------
(* Inputs: the config files that may be on disk and the path argument *)

\* application names come from the first MaxApps entries of AppNames
MaxApps == 2
AppNames == <<"safari", "chrome", "vim", "git", "zsh">>

EngineValues == KnownEngines \cup {None, <<"bogus">>}
PathValues == {None, <<"foo", "bar">>, <<"", "srv", "">>}
DirectoryValues == {None, CUSTOM_APPS_DIR, <<"backup">>}

StorageValues(o) ==
    CASE o = "engine" -> EngineValues
      [] o = "path" -> PathValues
      [] o = "directory" -> DirectoryValues

StorageSections ==
    UNION { { f \in [D -> EngineValues \cup PathValues \cup DirectoryValues] :
                \A o \in D : f[o] \in StorageValues(o) } :
            D \in SUBSET {"engine", "path", "directory"} }

\* a section of bare option names: the first n application names
AppSections ==
    { [o \in {AppNames[i] : i \in 1..n} |-> None] : n \in 0..MaxApps }

\* a set holding at most one section: {} is "the file has no such section"
Opt(S) == {{}} \cup {{x} : x \in S}

MkConfig(old, st, ig, sy) ==
    [ s \in old \cup (IF st = {} THEN {} ELSE {"storage"})
                \cup (IF ig = {} THEN {} ELSE {"applications_to_ignore"})
                \cup (IF sy = {} THEN {} ELSE {"applications_to_sync"}) |->
        IF s = "storage" THEN CHOOSE x \in st : TRUE
        ELSE IF s = "applications_to_ignore" THEN CHOOSE x \in ig : TRUE
        ELSE IF s = "applications_to_sync" THEN CHOOSE x \in sy : TRUE
        ELSE [o \in {} |-> None] ]

Configs ==
    { MkConfig(old, st, ig, sy) :
        old \in SUBSET {"Allowed Applications", "Ignored Applications"},
        st \in Opt(StorageSections),
        ig \in Opt(AppSections), sy \in Opt(AppSections) }

\* a few whole files, for the runs that vary where the files are
SmallConfigs ==
    { MkConfig({}, {[o \in {"engine", "path"} |->
                        IF o = "engine" THEN ENGINE_FS ELSE <<"foo", "bar">>]},
               {[o \in {"safari"} |-> None]}, {}),
      MkConfig({"Allowed Applications"}, {}, {}, {}),
      MkConfig({}, {[o \in {"directory"} |-> <<"backup">>]}, {}, {}) }

DefaultFile == Join(HOME, MACKUP_CONFIG_FILE)

Filenames == { None, <<"cfg">>, <<"~", "cfg">>, <<"", "etc", "cfg">>,
               <<"..", "cfg">>, MACKUP_CONFIG_FILE }

FilePaths == { DefaultFile, Join(HOME, <<"cfg">>), Join(CWD, <<"cfg">>),
               <<"", "etc", "cfg">>, <<"", "home", "cfg">>,
               Join(CWD, <<"~", "cfg">>) }

\* filesystems holding a config file at each path of some subset of paths
FileSystems(paths, contents) ==
    UNION { [D -> contents] : D \in SUBSET paths }

\* filesystems holding at most one config file
OneFile(paths, contents) ==
    UNION { [D -> contents] : D \in {{}} \cup {{q} : q \in paths} }

----------------------------------------------------------------------------
(* Config.__init__, statement by statement *)

InitWith(names, filesystems) ==
    /\ config_path \in names
    /\ files \in filesystems
    /\ pc = "setup_parser"
    /\ exc = ""
    /\ resolved = Unset
    /\ _parser = EmptyParser
    /\ _engine = Unset
    /\ _path = Unset
    /\ _directory = Unset
    /\ _apps_to_ignore = {}
    /\ _apps_to_sync = {}
    /\ calls = <<>>
    /\ read = [prop |-> "", val |-> None]

\* every content of one config file, found by default or by name
Init == InitWith({None, <<"cfg">>},
                 OneFile({DefaultFile, Join(CWD, <<"cfg">>)}, Configs))

\* every placement of a few config files, every path argument
InitFiles == InitWith(Filenames, FileSystems(FilePaths, SmallConfigs))

Running == exc = ""

SetupParser ==
    /\ Running /\ pc = "setup_parser"
    /\ resolved' = _resolve_config_path(files, config_path)
    /\ _parser' = _setup_parser(files, resolved')
    /\ pc' = "warn_on_old_config"
    /\ UNCHANGED <<config_path, files, exc, _engine, _path, _directory,
                   _apps_to_ignore, _apps_to_sync, calls, read>>

WarnOnOldConfig ==
    /\ Running /\ pc = "warn_on_old_config"
    /\ IF _warn_on_old_config(_parser)
       THEN exc' = error /\ pc' = pc
       ELSE exc' = exc /\ pc' = "parse_engine"
    /\ UNCHANGED <<config_path, files, resolved, _parser, _engine, _path,
                   _directory, _apps_to_ignore, _apps_to_sync, calls, read>>

ParseEngine ==
    /\ Running /\ pc = "parse_engine"
    /\ LET r == _parse_engine(_parser)
       IN IF r.exc = ""
          THEN _engine' = r.val /\ pc' = "parse_path" /\ exc' = exc
          ELSE _engine' = _engine /\ pc' = pc /\ exc' = r.exc
    /\ UNCHANGED <<config_path, files, resolved, _parser, _path, _directory,
                   _apps_to_ignore, _apps_to_sync, calls, read>>

ParsePath ==
    /\ Running /\ pc = "parse_path"
    /\ \E host \in Hosts :
         LET r == _parse_path(_parser, engine, host)
         IN /\ calls' = calls \o r.calls
            /\ IF r.exc = ""
               THEN _path' = r.val /\ pc' = "parse_directory" /\ exc' = exc
               ELSE _path' = _path /\ pc' = pc /\ exc' = r.exc
    /\ UNCHANGED <<config_path, files, resolved, _parser, _engine,
                   _directory, _apps_to_ignore, _apps_to_sync, read>>

ParseDirectory ==
    /\ Running /\ pc = "parse_directory"
    /\ LET r == _parse_directory(_parser)
       IN IF r.exc = ""
          THEN /\ _directory' = r.val
               /\ pc' = "parse_apps_to_ignore" /\ exc' = exc
          ELSE _directory' = _directory /\ pc' = pc /\ exc' = r.exc
    /\ UNCHANGED <<config_path, files, resolved, _parser, _engine, _path,
                   _apps_to_ignore, _apps_to_sync, calls, read>>

ParseAppsToIgnore ==
    /\ Running /\ pc = "parse_apps_to_ignore"
    /\ _apps_to_ignore' = _parse_apps_to_ignore(_parser)
    /\ pc' = "parse_apps_to_sync"
    /\ UNCHANGED <<config_path, files, exc, resolved, _parser, _engine,
                   _path, _directory, _apps_to_sync, calls, read>>

ParseAppsToSync ==
    /\ Running /\ pc = "parse_apps_to_sync"
    /\ _apps_to_sync' = _parse_apps_to_sync(_parser)
    /\ pc' = "constructed"
    /\ UNCHANGED <<config_path, files, exc, resolved, _parser, _engine,
                   _path, _directory, _apps_to_ignore, calls, read>>

\* a caller reads one of the properties of the constructed object
Read ==
    /\ pc = "constructed"
    /\ \E prop \in Props : read' = [prop |-> prop, val |-> Getter(prop)]
    /\ UNCHANGED <<config_path, files, pc, exc, resolved, _parser, _engine,
                   _path, _directory, _apps_to_ignore, _apps_to_sync, calls>>

Next ==
    \/ SetupParser
    \/ WarnOnOldConfig
    \/ ParseEngine
    \/ ParsePath
    \/ ParseDirectory
    \/ ParseAppsToIgnore
    \/ ParseAppsToSync
    \/ Read

Spec == Init /\ [][Next]_vars

SpecFiles == InitFiles /\ [][Next]_vars

----------------------------------------------------------------------------
(* Vocabulary of the properties *)

Steps == <<"setup_parser", "warn_on_old_config", "parse_engine",
           "parse_path", "parse_directory", "parse_apps_to_ignore",
           "parse_apps_to_sync", "constructed">>

StepNo(s) == CHOOSE i \in DOMAIN Steps : Steps[i] = s

\* the statement named s has run to its end, normally or by raising
Done(s) == StepNo(pc) > StepNo(s) \/ (pc = s /\ exc # "")

\* the statement named s has returned normally
Passed(s) == StepNo(pc) > StepNo(s)

Constructed == pc = "constructed"

Exceptions == {"SystemExit", "ConfigError", "TypeError", "LookupFailure"}

TypeOK ==
    /\ pc \in {Steps[i] : i \in DOMAIN Steps}
    /\ exc \in {""} \cup Exceptions
    /\ Constructed => exc = ""

HasOldSection ==
    \/ "Allowed Applications" \in DOMAIN _parser
    \/ "Ignored Applications" \in DOMAIN _parser

StorageHas(o) == "storage" \in DOMAIN _parser /\ o \in DOMAIN _parser["storage"]
StorageOpt(o) == _parser["storage"][o]

----------------------------------------------------------------------------
(* C1 *)

\* C1: when the parsed config has a section 'Allowed Applications' or
\* 'Ignored Applications', construction ends in the fatal abort of error()
\* and in nothing else: once the deprecated-format check has run, the run
\* has stopped there with SystemExit, no ConfigError was raised, no
\* folder-location lookup was invoked and no derivation has happened.
C1_OldConfigAborts ==
    (HasOldSection /\ Done("warn_on_old_config")) =>
        /\ pc = "warn_on_old_config" /\ exc = "SystemExit"
        /\ calls = <<>>
        /\ _engine = Unset /\ _path = Unset /\ _directory = Unset
        /\ _apps_to_ignore = {} /\ _apps_to_sync = {}

\* an aborted run whose file has only the second deprecated section, next
\* to a reserved directory name and an unknown engine
C1_Witness ==
    /\ exc = "SystemExit"
    /\ "Allowed Applications" \notin DOMAIN _parser
    /\ "Ignored Applications" \in DOMAIN _parser
    /\ StorageHas("engine") /\ StorageOpt("engine") = <<"bogus">>
    /\ StorageHas("directory") /\ StorageOpt("directory") = CUSTOM_APPS_DIR

----------------------------------------------------------------------------
(* C2 *)

\* C2: for a config with no deprecated section: a constructed Config whose
\* file gives 'engine' under 'storage' as one of the five known identifiers
\* has engine equal to it; when the option is absent engine is dropbox; when
\* the option carries anything else, construction fails with ConfigError
\* (raised by the engine derivation, before any lookup).
C2_Engine ==
    (~HasOldSection /\ Done("parse_engine")) =>
        IF ~StorageHas("engine")
        THEN Passed("parse_engine") /\ _engine = ENGINE_DROPBOX
             /\ (read.prop = "engine" => read.val = ENGINE_DROPBOX)
        ELSE IF StorageOpt("engine") \in
                  { <<"dropbox">>, <<"google_drive">>, <<"copy">>,
                    <<"icloud">>, <<"file_system">> }
        THEN Passed("parse_engine") /\ _engine = StorageOpt("engine")
             /\ (read.prop = "engine" => read.val = StorageOpt("engine"))
        ELSE pc = "parse_engine" /\ exc = "ConfigError" /\ calls = <<>>

\* a constructed Config that reports the engine its file names
C2_Witness ==
    /\ Constructed
    /\ StorageHas("engine") /\ StorageOpt("engine") = <<"google_drive">>
    /\ read = [prop |-> "engine", val |-> <<"google_drive">>]

\* the other two cases of C2 happen as well
C2_WitnessDefault ==
    Constructed /\ ~StorageHas("engine") /\ "storage" \in DOMAIN _parser
C2_WitnessUnknown ==
    exc = "ConfigError" /\ StorageHas("engine") /\ StorageOpt("engine") = None

----------------------------------------------------------------------------
(* C3 *)

\* C3: when the engine is file_system: with no 'path' option under
\* 'storage' construction fails with ConfigError; with the option present
\* the storage path is HOME joined with the option's value, for every value
\* the option can carry.
C3_FsPath ==
    (_engine = ENGINE_FS /\ Done("parse_path")) =>
        IF ~StorageHas("path")
        THEN pc = "parse_path" /\ exc = "ConfigError"
        ELSE /\ Passed("parse_path")
             /\ _path = Join(HOME, StorageOpt("path"))

\* the same statement for the values that are strings
C3_FsPathOfStr ==
    (_engine = ENGINE_FS /\ Done("parse_path")) =>
        IF ~StorageHas("path")
        THEN pc = "parse_path" /\ exc = "ConfigError"
        ELSE IF StorageOpt("path") = None
        THEN pc = "parse_path" /\ exc = "TypeError" /\ _path = Unset
        ELSE /\ Passed("parse_path")
             /\ _path = Join(HOME, StorageOpt("path"))

C3_WitnessRelative ==
    Constructed /\ _engine = ENGINE_FS
    /\ StorageOpt("path") = <<"foo", "bar">>
    /\ _path = <<"", "home", "u", "foo", "bar">>

----------------------------------------------------------------------------
(* C4 *)

C4_WitnessVerbatim ==
    Constructed /\ StorageHas("directory") /\ _directory = <<"backup">>
C4_WitnessNoValue ==
    Constructed /\ StorageHas("directory") /\ StorageOpt("directory") = None

----------------------------------------------------------------------------
(* C5 *)

\* C5: every read of fullpath on a constructed Config gives the join of
\* what the path and directory accessors give at that moment, that is of
\* the stored _path and _directory; there is no separate stored full path.
C5_Fullpath ==
    read.prop = "fullpath" =>
        /\ Constructed
        /\ read.val = Join(Str(_path), Str(_directory))

\* fullpath has been read on a Config of the file_system engine whose path
\* and directory both come from the file
C5_Witness ==
    /\ read.prop = "fullpath"
    /\ _engine = ENGINE_FS /\ StorageHas("directory")
    /\ read.val = <<"", "home", "u", "foo", "bar", "backup">>

----------------------------------------------------------------------------
(* C6 *)

\* C6: on a constructed Config apps_to_ignore is exactly the set of option
\* names of section 'applications_to_ignore' when that section exists and
\* empty when it does not, and apps_to_sync is the same of section
\* 'applications_to_sync'; neither depends on the engine nor on the other
\* section.
C6_AppSets ==
    Constructed =>
        /\ apps_to_ignore =
             IF "applications_to_ignore" \in DOMAIN _parser
             THEN DOMAIN _parser["applications_to_ignore"] ELSE {}
        /\ apps_to_sync =
             IF "applications_to_sync" \in DOMAIN _parser
             THEN DOMAIN _parser["applications_to_sync"] ELSE {}
        /\ read.prop = "apps_to_ignore" => read.val = apps_to_ignore
        /\ read.prop = "apps_to_sync" => read.val = apps_to_sync

\* both sections present with different names, under a non-default engine
C6_Witness ==
    /\ Constructed
    /\ _engine = ENGINE_FS
    /\ apps_to_ignore = {"safari", "chrome"}
    /\ apps_to_sync = {"safari"}
    /\ read.prop = "apps_to_sync"

C6_WitnessAbsent ==
    /\ Constructed
    /\ "applications_to_ignore" \notin DOMAIN _parser
    /\ apps_to_sync = {"safari", "chrome"} /\ apps_to_ignore = {}

----------------------------------------------------------------------------
(* C7 *)

\* the three places an explicit path is looked for
Candidate(i) ==
    CASE i = 1 -> IF Head(config_path) = "~"
                  THEN HOME \o Tail(config_path) ELSE config_path
      [] i = 2 -> Join(HOME, config_path)
      [] i = 3 -> Join(CWD, config_path)

CandidateExists(i) ==
    /\ Last(Candidate(i)) # ""
    /\ Abspath(Candidate(i)) \in DOMAIN files

NotFoundAnywhere ==
    config_path # None /\ \A i \in 1..3 : ~CandidateExists(i)

\* what a parsed config makes of construction, lookups aside
Derived(p) ==
    [ old |-> _warn_on_old_config(p),
      engine |-> _parse_engine(p),
      directory |-> _parse_directory(p),
      ignore |-> _parse_apps_to_ignore(p),
      sync |-> _parse_apps_to_sync(p) ]

\* C7 as stated: an explicit path that names no regular file at any of its
\* three lookup locations gives the same outcome and the same derived
\* values as constructing Config with no path on the same filesystem.
C7_SameAsNoPath ==
    (NotFoundAnywhere /\ Done("setup_parser")) =>
        Derived(_parser) =
            Derived(_setup_parser(files, _resolve_config_path(files, None)))

\* C7 amended: an explicit path that names no regular file at any of its
\* three lookup locations gives what constructing Config with no path gives
\* when the default config file does not exist: nothing is read, even if
\* the default file exists, no error is raised at the lookup stage, and
\* every derived value falls back to its default.
C7_SameAsNoFile ==
    (NotFoundAnywhere /\ Done("setup_parser")) =>
        /\ resolved = None
        /\ _parser = EmptyParser
        /\ Derived(_parser) =
             Derived(_setup_parser(EmptyParser,
                                   _resolve_config_path(EmptyParser, None)))
        /\ exc \in {"", "LookupFailure"}
        /\ Passed("parse_engine") => _engine = ENGINE_DROPBOX
        /\ Constructed =>
             /\ _directory = MACKUP_BACKUP_PATH
             /\ _apps_to_ignore = {} /\ _apps_to_sync = {}

\* a Config constructed from a path found nowhere, while the default config
\* file exists
C7_Witness ==
    /\ Constructed /\ NotFoundAnywhere
    /\ DefaultFile \in DOMAIN files
    /\ Join(CWD, <<"cfg">>) \in DOMAIN files

----------------------------------------------------------------------------
(* C8 *)

SoftDefaults ==
    /\ ~StorageHas("engine") /\ ~StorageHas("directory")
    /\ "applications_to_ignore" \notin DOMAIN _parser
    /\ "applications_to_sync" \notin DOMAIN _parser
    /\ ~HasOldSection

\* C8 as stated: when no config file is found, or the file omits 'engine',
\* 'directory' and the ignore and sync sections, construction completes
\* without any error or abort, with engine dropbox, the default directory
\* and two empty application sets.
C8_SoftDefaultsNeverRaise ==
    (SoftDefaults /\ Done("setup_parser")) =>
        /\ exc = ""
        /\ Passed("parse_engine") => _engine = ENGINE_DROPBOX
        /\ Constructed =>
             /\ _directory = MACKUP_BACKUP_PATH
             /\ _apps_to_ignore = {} /\ _apps_to_sync = {}

\* C8 amended: in that case Config raises no error of its own (no
\* ConfigError, no abort of error()): the run ends either in a Config with
\* engine dropbox, the default directory and two empty application sets,
\* or in the failure of the Dropbox folder lookup, which the path
\* derivation lets through.
C8_SoftDefaults ==
    (SoftDefaults /\ Done("setup_parser")) =>
        /\ exc \in {"", "LookupFailure"}
        /\ exc = "LookupFailure" =>
             /\ pc = "parse_path"
             /\ calls = <<[fn |-> "get_dropbox_folder_location",
                           ret |-> LookupFailed]>>
        /\ Passed("parse_engine") => _engine = ENGINE_DROPBOX
        /\ Passed("parse_directory") => _directory = MACKUP_BACKUP_PATH
        /\ Constructed => _apps_to_ignore = {} /\ _apps_to_sync = {}
        /\ read.prop = "engine" => read.val = <<"dropbox">>

\* a Config constructed with no config file on disk at all
C8_Witness ==
    /\ Constructed /\ files = EmptyParser /\ config_path = None
    /\ read.prop = "engine"

C8_WitnessLookupFails ==
    exc = "LookupFailure" /\ files = EmptyParser

----------------------------------------------------------------------------
(* C9 *)

\* C9: with an explicit path, _resolve_config_path returns the absolute form
\* of the first of (a) the path with a leading ~ expanded, (b) HOME joined
\* with it, (c) the current directory joined with it, that is an existing
\* regular file: a later candidate only if no earlier one exists, and None
\* exactly when none exists, whether or not the default HOME config file
\* is there.
C9_FirstExisting ==
    (config_path # None /\ Done("setup_parser")) =>
        /\ (resolved = None) <=> (\A i \in 1..3 : ~CandidateExists(i))
        /\ \A i \in 1..3 :
             (CandidateExists(i) /\ \A j \in 1..(i - 1) : ~CandidateExists(j))
               => /\ resolved = Abspath(Candidate(i))
                  /\ _parser = files[resolved]

\* the second candidate was returned, in normalised absolute form, the first
\* one not being a file, and the default config file exists too
C9_Witness ==
    /\ config_path = <<"..", "cfg">> /\ Done("setup_parser")
    /\ ~CandidateExists(1) /\ CandidateExists(2)
    /\ resolved = <<"", "home", "cfg">>
    /\ DefaultFile \in DOMAIN files

C9_WitnessNone ==
    /\ config_path # None /\ Done("setup_parser") /\ resolved = None
    /\ DefaultFile \in DOMAIN files

C9_WitnessThird ==
    /\ config_path # None /\ Done("setup_parser")
    /\ ~CandidateExists(1) /\ ~CandidateExists(2) /\ CandidateExists(3)

----------------------------------------------------------------------------
(* C10 *)

LookupOf(e) ==
    CASE e = ENGINE_DROPBOX -> "get_dropbox_folder_location"
      [] e = ENGINE_GDRIVE -> "get_google_drive_folder_location"
      [] e = ENGINE_COPY -> "get_copy_folder_location"
      [] e = ENGINE_ICLOUD -> "get_icloud_folder_location"

\* C10: when the derived engine is dropbox, google_drive, copy or icloud,
\* construction invokes exactly one folder-location lookup, that engine's,
\* and the storage path is what the lookup returned, whatever the 'path'
\* option says; when the engine is file_system or unknown, and before the
\* path derivation, no lookup is invoked.
C10_Lookups ==
    IF Done("parse_path") /\ _engine # ENGINE_FS
    THEN /\ Len(calls) = 1
         /\ calls[1].fn = LookupOf(_engine)
         /\ calls[1].ret = LookupFailed
               <=> (pc = "parse_path" /\ exc = "LookupFailure")
         /\ calls[1].ret # LookupFailed
               => (Passed("parse_path") /\ _path = calls[1].ret)
    ELSE calls = <<>>

\* a Config of the copy engine whose file also carries a 'path' option
C10_Witness ==
    /\ Constructed /\ _engine = ENGINE_COPY
    /\ StorageHas("path") /\ StorageOpt("path") = <<"foo", "bar">>
    /\ _path = <<"", "mnt", "sync", "get_copy_folder_location">>

C10_WitnessFs ==
    Constructed /\ _engine = ENGINE_FS /\ calls = <<>>

====
